---- MODULE Spec2Model ----
(***************************************************************************)
(* Model of prepare_gbif_data.py: a linear batch script that loads a       *)
(* tab-separated GBIF occurrence table, cleans it, attaches point          *)
(* geometries, keeps the points within the Mesoamerican biological         *)
(* corridor (MBC) polygon, shows two figures and exports a CSV file.       *)
(*                                                                         *)
(* Conventions.                                                            *)
(*  - A data frame is a record [columns, rows]; rows is a sequence of      *)
(*    records that carry the pandas index label in the field "index".      *)
(*  - Coordinates are integers in thousandths of a degree.                 *)
(*  - A cell of the source "date" column is <<mm, dd, yy>> (the text       *)
(*    "mm/dd/yy") or <<>> (an empty cell, read by read_csv as NaN).        *)
(*  - A Timestamp is <<year, month, day>> (midnight); NaT is <<>>.         *)
(*  - An unhandled exception ends the script: pc = "aborted".              *)
(***************************************************************************)
EXTENDS Integers, Sequences, FiniteSets, TLC

VARIABLES file, outfile, pc, failedAt, df, gdf, mbc_gdf, world, shown,
          year_counts

vars == <<file, outfile, pc, failedAt, df, gdf, mbc_gdf, world, shown,
          year_counts>>

(* Largest number of data rows in the input file. *)
MaxRows == 2

(* The float NaN pandas stores in a numeric cell without a value. *)
NaN == -999999999

(* The null Timestamp. *)
NaT == << >>

(***************************************************************************)
(* Columns                                                                 *)
(***************************************************************************)
FileColumns ==
  {"decimalLatitude", "decimalLongitude", "date", "type", "basisOfRecord",
   "gbifID", "occurrenceID", "scientificName"}

cols_to_keep ==
  {"latitude", "longitude", "date", "year", "month", "day",
   "type", "basisOfRecord", "gbifID", "occurrenceID"}

(***************************************************************************)
(* The MBC polygon, thousandths of a degree, (longitude, latitude).        *)
(***************************************************************************)
mbc_coords ==
  << <<-91180, 13639>>, <<-87994, 12891>>, <<-86280, 11172>>,
     <<-86610, 10395>>, <<-84918, 9204>>,  <<-84588, 8726>>,
     <<-82171, 7704>>,  <<-81314, 6702>>,  <<-79644, 6963>>,
     <<-80150, 8074>>,  <<-79249, 8661>>,  <<-78678, 8509>>,
     <<-78568, 7748>>,  <<-77689, 6832>>,  <<-77008, 8401>>,
     <<-77161, 8900>>,  <<-79095, 9962>>,  <<-80062, 9594>>,
     <<-81292, 9095>>,  <<-82023, 9404>>,  <<-82814, 9946>>,
     <<-83473, 10875>>, <<-82858, 14795>>, <<-83121, 15262>>,
     <<-84791, 16129>>, <<-88417, 15960>>, <<-86219, 21615>>,
     <<-87999, 21840>>, <<-90240, 21533>>, <<-91625, 18915>>,
     <<-94283, 18520>>, <<-93932, 17433>>, <<-94437, 15854>>,
     <<-91180, 13639>> >>

mbc_polygon == mbc_coords

(***************************************************************************)
(* Calendar                                                                *)
(***************************************************************************)
IsLeap(y) == (y % 4 = 0) /\ ((y % 100 # 0) \/ (y % 400 = 0))

DaysInMonth(y, m) ==
  IF m = 2 THEN (IF IsLeap(y) THEN 29 ELSE 28)
  ELSE IF m \in {4, 6, 9, 11} THEN 30 ELSE 31

ValidDate(y, m, d) ==
  /\ m \in 1..12
  /\ d \in 1..DaysInMonth(y, m)

(* strptime "%y": 69..99 -> 1969..1999, 00..68 -> 2000..2068. *)
StrptimeYear(yy) == IF yy <= 68 THEN 2000 + yy ELSE 1900 + yy

(* Does the cell parse with format "%m/%d/%y" (an empty cell gives NaT)? *)
Parseable(cell) ==
  \/ cell = << >>
  \/ /\ Len(cell) = 3
     /\ cell[3] \in 0..99
     /\ ValidDate(StrptimeYear(cell[3]), cell[1], cell[2])

(* pd.to_datetime(cell, format="%m/%d/%y") on a parseable cell. *)
to_datetime(cell) ==
  IF cell = << >> THEN NaT
  ELSE <<StrptimeYear(cell[3]), cell[1], cell[2]>>

(* Timestamp.replace(year=...) raises ValueError on a date that does not
   exist. *)
ReplaceRaises(date_value, y) == ~ValidDate(y, date_value[2], date_value[3])

(* Does correct_future_dates raise on this value? *)
CorrectRaises(date_value) ==
  /\ date_value # NaT
  /\ date_value[1] >= 2026
  /\ ReplaceRaises(date_value, date_value[1] - 100)

(* correct_future_dates with the threshold test written "> 2026". *)
correct_future_dates_gt(date_value) ==
  IF date_value # NaT /\ date_value[1] > 2026
  THEN <<date_value[1] - 100, date_value[2], date_value[3]>>
  ELSE date_value

(* correct_future_dates that shifts by 10 years instead of 100. *)
correct_future_dates_minus10(date_value) ==
  IF date_value # NaT /\ date_value[1] >= 2026
  THEN <<date_value[1] - 10, date_value[2], date_value[3]>>
  ELSE date_value

correct_future_dates(date_value) ==
  IF date_value # NaT /\ date_value[1] >= 2026
  THEN <<date_value[1] - 100, date_value[2], date_value[3]>>
  ELSE date_value

(* Series.dt.year / .dt.month / .dt.day: NaN for NaT. *)
DtField(date_value, k) == IF date_value = NaT THEN NaN ELSE date_value[k]

(* pd.to_numeric(errors="coerce") on one cell. *)
to_numeric(v) == IF v \in Int THEN v ELSE NaN

Digit(n) == <<"0", "1", "2", "3", "4", "5", "6", "7", "8", "9">>[n + 1]

Pad2(n) == <<Digit((n \div 10) % 10), Digit(n % 10)>>

Pad4(n) == <<Digit((n \div 1000) % 10), Digit((n \div 100) % 10)>> \o Pad2(n)

(* strftime with the format "%Y-%d-%mT%H:%M:%S". *)
strftime_day_first(date_value) ==
  Pad4(date_value[1]) \o <<"-">> \o Pad2(date_value[3]) \o <<"-">>
    \o Pad2(date_value[2]) \o <<"T">> \o Pad2(0) \o <<":">> \o Pad2(0)
    \o <<":">> \o Pad2(0)

(* Timestamp.strftime("%Y-%m-%dT%H:%M:%S"); the Timestamp is at midnight. *)
strftime(date_value) ==
  Pad4(date_value[1]) \o <<"-">> \o Pad2(date_value[2]) \o <<"-">>
    \o Pad2(date_value[3]) \o <<"T">> \o Pad2(0) \o <<":">> \o Pad2(0)
    \o <<":">> \o Pad2(0)

(***************************************************************************)
(* Data frames                                                             *)
(***************************************************************************)
EmptyFrame == [columns |-> {}, rows |-> << >>]

(* Is the cell of column c null (NaN or NaT)? *)
IsNa(c, v) == IF c = "date" THEN v = NaT ELSE v = NaN

(* The rows at the positions in keep, in their order. *)
SelectRows(rows, keep) ==
  LET F[i \in 0..Len(rows)] ==
        IF i = 0 THEN << >>
        ELSE IF i \in keep THEN Append(F[i - 1], rows[i]) ELSE F[i - 1]
  IN F[Len(rows)]

(* dropna with how="all": a row goes only when every listed cell is null. *)
dropna_how_all(t, subset) ==
  LET keep == {i \in 1..Len(t.rows) :
                 \E c \in subset : ~IsNa(c, t.rows[i][c])}
  IN [t EXCEPT !.rows = SelectRows(t.rows, keep)]

(* DataFrame.dropna(subset=...), for a subset of existing columns. *)
dropna(t, subset) ==
  LET keep == {i \in 1..Len(t.rows) :
                 \A c \in subset : ~IsNa(c, t.rows[i][c])}
  IN [t EXCEPT !.rows = SelectRows(t.rows, keep)]

(* pd.read_csv: the rows in file order under a RangeIndex. *)
read_csv(f) ==
  [columns |-> f.columns,
   rows |-> [i \in 1..Len(f.rows) |->
               [c \in f.columns \cup {"index"} |->
                  IF c = "index" THEN i - 1 ELSE f.rows[i][c]]]]

RenameColumn(c) ==
  IF c = "decimalLatitude" THEN "latitude"
  ELSE IF c = "decimalLongitude" THEN "longitude" ELSE c

(* DataFrame.rename(columns={...}). *)
rename(t) ==
  LET Old(c) == IF c = "latitude" /\ "decimalLatitude" \in t.columns
                  THEN "decimalLatitude"
                ELSE IF c = "longitude" /\ "decimalLongitude" \in t.columns
                  THEN "decimalLongitude" ELSE c
      newcols == {RenameColumn(c) : c \in t.columns}
  IN [columns |-> newcols,
      rows |-> [i \in 1..Len(t.rows) |->
                  [c \in newcols \cup {"index"} |-> t.rows[i][Old(c)]]]]

(* df[c] = values, one value per row. *)
Assign(t, c, values) ==
  [columns |-> t.columns \cup {c},
   rows |-> [i \in 1..Len(t.rows) |->
               [k \in t.columns \cup {c, "index"} |->
                  IF k = c THEN values[i] ELSE t.rows[i][k]]]]

(* df[c].apply(...) spelled per row: the positions of the rows. *)
Rows(t) == 1..Len(t.rows)

(* df[cols]: the listed columns only; the index is kept. *)
Project(t, cols) ==
  [columns |-> cols,
   rows |-> [i \in 1..Len(t.rows) |->
               [k \in cols \cup {"index"} |-> t.rows[i][k]]]]

(***************************************************************************)
(* Geometry                                                                *)
(***************************************************************************)
(* A point built in (latitude, longitude) order. *)
PointLatLon(r) == <<r["latitude"], r["longitude"]>>

(* Point(xy) for xy in zip(df["longitude"], df["latitude"]). *)
Point(r) == <<r["longitude"], r["latitude"]>>

(* p lies on the closed segment a-b. *)
OnSegment(p, a, b) ==
  /\ (b[1] - a[1]) * (p[2] - a[2]) = (b[2] - a[2]) * (p[1] - a[1])
  /\ (a[1] <= p[1] /\ p[1] <= b[1]) \/ (b[1] <= p[1] /\ p[1] <= a[1])
  /\ (a[2] <= p[2] /\ p[2] <= b[2]) \/ (b[2] <= p[2] /\ p[2] <= a[2])

OnBoundary(p, poly) ==
  \E i \in 1..(Len(poly) - 1) : OnSegment(p, poly[i], poly[i + 1])

(* The ray from p towards +x crosses the edge a-b (half-open rule). *)
RayCrosses(p, a, b) ==
  /\ (a[2] > p[2]) # (b[2] > p[2])
  /\ IF b[2] > a[2]
     THEN (p[1] - a[1]) * (b[2] - a[2]) < (p[2] - a[2]) * (b[1] - a[1])
     ELSE (p[1] - a[1]) * (b[2] - a[2]) > (p[2] - a[2]) * (b[1] - a[1])

Crossings(p, poly) ==
  Cardinality({i \in 1..(Len(poly) - 1) : RayCrosses(p, poly[i], poly[i + 1])})

(* The point is in the interior of the polygon. *)
InInterior(p, poly) == ~OnBoundary(p, poly) /\ Crossings(p, poly) % 2 = 1

(* The predicate "intersects" in place of "within": the boundary counts. *)
intersects(p, poly) == OnBoundary(p, poly) \/ Crossings(p, poly) % 2 = 1

(* shapely: a.within(b) holds when a lies in b and the interiors meet, so a
   point on the boundary ring is not within the polygon. *)
within(p, poly) == InInterior(p, poly)

(***************************************************************************)
(* Inputs                                                                  *)
(***************************************************************************)
(* <<latitude, longitude>> pairs of the input rows: inside the corridor, a
   vertex of the ring, a point on an edge, outside on the level of a vertex,
   the origin, and rows lacking one coordinate. *)
CoordInputs ==
  { <<10000, -85000>>, <<11172, -86280>>, <<13265, -89587>>,
    <<9204, -85000>>, <<0, 0>>, <<NaN, -85000>>, <<10000, NaN>> }

(* Cells of the "date" column: empty, "01/15/47", "06/01/99", "01/01/26" and
   the unparseable "02/30/20". *)
DateInputs ==
  { << >>, <<1, 15, 47>>, <<6, 1, 99>>, <<1, 1, 26>>, <<2, 30, 20>> }

(* Every "mm/dd/yy" text with a two-digit year, valid or not, and the empty
   cell. *)
AllDateInputs ==
  { << >> } \cup { <<m, d, y>> : m \in 0..13, d \in 0..32, y \in 0..99 }

RowInputs ==
  { [decimalLatitude |-> c[1], decimalLongitude |-> c[2], date |-> d,
     type |-> "PhysicalObject", basisOfRecord |-> "PRESERVED_SPECIMEN",
     gbifID |-> 0, occurrenceID |-> 0, scientificName |-> "Panthera onca"] :
    c \in CoordInputs, d \in DateInputs }

(* Identifiers are unique per line of the file. *)
Number(rows) ==
  [i \in 1..Len(rows) |->
     [rows[i] EXCEPT !.gbifID = 1000 + i, !.occurrenceID = 2000 + i]]

TableInputs ==
  UNION { [1..n -> RowInputs] : n \in 0..MaxRows }

(* Header variants: complete, or lacking one required column. *)
MissingInputs == { {}, {"decimalLatitude"}, {"date"}, {"gbifID"} }

FileOf(rows, missing) ==
  [exists |-> TRUE,
   columns |-> FileColumns \ missing,
   rows |-> [i \in 1..Len(rows) |->
               [c \in FileColumns \ missing |-> Number(rows)[i][c]]]]

NoFile == [exists |-> FALSE, columns |-> {}, rows |-> << >>]

OutAbsent == [state |-> "absent", rows |-> << >>]

OutStale == [state |-> "stale", rows |-> << >>]

(***************************************************************************)
(* Initial state                                                           *)
(***************************************************************************)
InitRest ==
  /\ outfile \in {OutAbsent, OutStale}
  /\ pc = "read_csv"
  /\ failedAt = "none"
  /\ df = EmptyFrame
  /\ gdf = EmptyFrame
  /\ mbc_gdf = EmptyFrame
  /\ world = FALSE
  /\ shown = << >>
  /\ year_counts = << >>

Init ==
  /\ file \in {NoFile} \cup
              {FileOf(t, m) : t \in TableInputs, m \in MissingInputs}
  /\ InitRest

(* One located row, any date. *)
DateRow(d) ==
  [decimalLatitude |-> 10000, decimalLongitude |-> -85000, date |-> d,
   type |-> "PhysicalObject", basisOfRecord |-> "PRESERVED_SPECIMEN",
   gbifID |-> 0, occurrenceID |-> 0, scientificName |-> "Panthera onca"]

InitDate ==
  /\ file \in {FileOf(<<DateRow(d)>>, {}) : d \in AllDateInputs}
  /\ InitRest

(***************************************************************************)
(* Statements                                                              *)
(***************************************************************************)
Raise(stage) ==
  /\ pc' = "aborted"
  /\ failedAt' = stage

Goto(stage) ==
  /\ pc' = stage
  /\ UNCHANGED failedAt

(* line 9 *)
Load ==
  /\ pc = "read_csv"
  /\ IF file.exists
     THEN df' = read_csv(file) /\ Goto("dropna_coords")
     ELSE Raise("read_csv") /\ UNCHANGED df
  /\ UNCHANGED <<file, outfile, gdf, mbc_gdf, world, shown, year_counts>>

(* line 12 *)
DropNaCoords ==
  /\ pc = "dropna_coords"
  /\ IF {"decimalLatitude", "decimalLongitude"} \subseteq df.columns
     THEN /\ df' = dropna(df, {"decimalLatitude", "decimalLongitude"})
          /\ Goto("rename")
     ELSE Raise("dropna_coords") /\ UNCHANGED df
  /\ UNCHANGED <<file, outfile, gdf, mbc_gdf, world, shown, year_counts>>

(* lines 15-18 *)
Rename ==
  /\ pc = "rename"
  /\ df' = rename(df)
  /\ Goto("to_datetime")
  /\ UNCHANGED <<file, outfile, gdf, mbc_gdf, world, shown, year_counts>>

(* line 21: errors="raise" is the default of pd.to_datetime *)
ToDatetime ==
  /\ pc = "to_datetime"
  /\ IF /\ "date" \in df.columns
        /\ \A i \in 1..Len(df.rows) : Parseable(df.rows[i]["date"])
     THEN /\ df' = Assign(df, "date",
                         [i \in Rows(df) |-> to_datetime(df.rows[i]["date"])])
          /\ Goto("correct")
     ELSE Raise("to_datetime") /\ UNCHANGED df
  /\ UNCHANGED <<file, outfile, gdf, mbc_gdf, world, shown, year_counts>>

(* lines 24-32 *)
Correct ==
  /\ pc = "correct"
  /\ IF \E i \in 1..Len(df.rows) : CorrectRaises(df.rows[i]["date"])
     THEN Raise("correct") /\ UNCHANGED df
     ELSE /\ df' = Assign(df, "date",
                     [i \in Rows(df) |->
                        correct_future_dates(df.rows[i]["date"])])
          /\ Goto("derive")
  /\ UNCHANGED <<file, outfile, gdf, mbc_gdf, world, shown, year_counts>>

(* lines 35-37 *)
Derive ==
  /\ pc = "derive"
  /\ df' = LET y == [i \in Rows(df) |-> DtField(df.rows[i]["date"], 1)]
               m == [i \in Rows(df) |-> DtField(df.rows[i]["date"], 2)]
               d == [i \in Rows(df) |-> DtField(df.rows[i]["date"], 3)]
           IN Assign(Assign(Assign(df, "year", y), "month", m), "day", d)
  /\ Goto("to_numeric")
  /\ UNCHANGED <<file, outfile, gdf, mbc_gdf, world, shown, year_counts>>

(* line 40 *)
ToNumeric ==
  /\ pc = "to_numeric"
  /\ df' = Assign(df, "year",
                  [i \in Rows(df) |-> to_numeric(df.rows[i]["year"])])
  /\ Goto("dropna_year")
  /\ UNCHANGED <<file, outfile, gdf, mbc_gdf, world, shown, year_counts>>

(* The result of dropna is not assigned back to df. *)
DropNaYearNotAssigned ==
  /\ pc = "dropna_year"
  /\ df' = df
  /\ Goto("project")
  /\ UNCHANGED <<file, outfile, gdf, mbc_gdf, world, shown, year_counts>>

(* line 43 *)
DropNaYear ==
  /\ pc = "dropna_year"
  /\ df' = dropna(df, {"year"})
  /\ Goto("project")
  /\ UNCHANGED <<file, outfile, gdf, mbc_gdf, world, shown, year_counts>>

(* lines 47-52 *)
Select ==
  /\ pc = "project"
  /\ IF cols_to_keep \subseteq df.columns
     THEN df' = Project(df, cols_to_keep) /\ Goto("dropna_date")
     ELSE Raise("project") /\ UNCHANGED df
  /\ UNCHANGED <<file, outfile, gdf, mbc_gdf, world, shown, year_counts>>

(* line 55 *)
DropNaDate ==
  /\ pc = "dropna_date"
  /\ df' = dropna(df, {"date"})
  /\ Goto("time_start")
  /\ UNCHANGED <<file, outfile, gdf, mbc_gdf, world, shown, year_counts>>

(* line 58 *)
TimeStart ==
  /\ pc = "time_start"
  /\ df' = Assign(df, "system:time_start",
                  [i \in Rows(df) |-> strftime(df.rows[i]["date"])])
  /\ Goto("drop_date")
  /\ UNCHANGED <<file, outfile, gdf, mbc_gdf, world, shown, year_counts>>

(* line 61 *)
DropDate ==
  /\ pc = "drop_date"
  /\ df' = Project(df, df.columns \ {"date"})
  /\ Goto("geometrize")
  /\ UNCHANGED <<file, outfile, gdf, mbc_gdf, world, shown, year_counts>>

(* lines 104-109 *)
Geometrize ==
  /\ pc = "geometrize"
  /\ gdf' = Assign(df, "geometry", [i \in Rows(df) |-> Point(df.rows[i])])
  /\ Goto("filter")
  /\ UNCHANGED <<file, outfile, df, mbc_gdf, world, shown, year_counts>>

(* gdf[gdf.geometry.within(mbc_polygon)] *)
FilterWithin(t, poly) ==
  LET keep == {i \in Rows(t) : within(t.rows[i]["geometry"], poly)}
  IN [t EXCEPT !.rows = SelectRows(t.rows, keep)]

(* line 112 *)
Filter ==
  /\ pc = "filter"
  /\ mbc_gdf' = FilterWithin(gdf, mbc_polygon)
  /\ Goto("read_world")
  /\ UNCHANGED <<file, outfile, df, gdf, world, shown, year_counts>>

(* ReadWorld with the download error swallowed: the script carries on. *)
ReadWorldSwallowsError ==
  /\ pc = "read_world"
  /\ \E ok \in BOOLEAN :
       IF ok THEN world' = TRUE /\ Goto("plot_map")
       ELSE pc' = "plot_map" /\ failedAt' = "read_world" /\ UNCHANGED world
  /\ UNCHANGED <<file, outfile, df, gdf, mbc_gdf, shown, year_counts>>

(* lines 117-118: the download succeeds or raises *)
ReadWorld ==
  /\ pc = "read_world"
  /\ \E ok \in BOOLEAN :
       IF ok THEN world' = TRUE /\ Goto("plot_map")
       ELSE Raise("read_world") /\ UNCHANGED world
  /\ UNCHANGED <<file, outfile, df, gdf, mbc_gdf, shown, year_counts>>

(* lines 119-136 *)
PlotMap ==
  /\ pc = "plot_map"
  /\ shown' = Append(shown, "Occurrences Inside the Mesoamerican Biological Corridor")
  /\ Goto("histogram")
  /\ UNCHANGED <<file, outfile, df, gdf, mbc_gdf, world, year_counts>>

(* mbc_gdf["year"].value_counts().sort_index(): <<year, count>> pairs in
   ascending order of year. *)
value_counts_sorted(t) ==
  LET years == {t.rows[i]["year"] : i \in 1..Len(t.rows)}
      Count(y) == Cardinality({i \in 1..Len(t.rows) : t.rows[i]["year"] = y})
      F[S \in SUBSET years] ==
        IF S = {} THEN << >>
        ELSE LET mx == CHOOSE y \in S : \A z \in S : z <= y
             IN Append(F[S \ {mx}], <<mx, Count(mx)>>)
  IN F[years]

(* lines 139-146 *)
Histogram ==
  /\ pc = "histogram"
  /\ year_counts' = value_counts_sorted(mbc_gdf)
  /\ shown' = Append(shown, "Jaguar Sightings by Year")
  /\ Goto("export")
  /\ UNCHANGED <<file, outfile, df, gdf, mbc_gdf, world>>

(* DataFrame.to_csv(index=False): the rows without the index. *)
to_csv(t) ==
  [state |-> "written",
   rows |-> [i \in 1..Len(t.rows) |-> [c \in t.columns |-> t.rows[i][c]]]]

(* Export that truncates the file before it fails. *)
ExportTruncatesThenFails ==
  /\ pc = "export"
  /\ \E ok \in BOOLEAN :
       IF ok THEN outfile' = to_csv(mbc_gdf) /\ Goto("done")
       ELSE Raise("export") /\ outfile' = [state |-> "written", rows |-> << >>]
  /\ UNCHANGED <<file, df, gdf, mbc_gdf, world, shown, year_counts>>

(* line 149: the file is opened for writing, or open() raises *)
Export ==
  /\ pc = "export"
  /\ \E ok \in BOOLEAN :
       IF ok THEN outfile' = to_csv(mbc_gdf) /\ Goto("done")
       ELSE Raise("export") /\ UNCHANGED outfile
  /\ UNCHANGED <<file, df, gdf, mbc_gdf, world, shown, year_counts>>

Next ==
  \/ Load
  \/ DropNaCoords
  \/ Rename
  \/ ToDatetime
  \/ Correct
  \/ Derive
  \/ ToNumeric
  \/ DropNaYear
  \/ Select
  \/ DropNaDate
  \/ TimeStart
  \/ DropDate
  \/ Geometrize
  \/ Filter
  \/ ReadWorld
  \/ PlotMap
  \/ Histogram
  \/ Export

Spec == Init /\ [][Next]_vars

(* The same script on single-row files that cover every date text. *)
SpecDate == InitDate /\ [][Next]_vars

(***************************************************************************)
(* Properties                                                              *)
(***************************************************************************)
CleaningStages ==
  {"dropna_coords", "rename", "to_datetime", "correct", "derive",
   "to_numeric", "dropna_year", "project", "dropna_date", "time_start",
   "drop_date"}

(* The Cleaner has finished: df is the cleaned table. *)
Cleaned ==
  \/ pc \in {"geometrize", "filter", "read_world", "plot_map", "histogram",
             "export", "done"}
  \/ pc = "aborted" /\ failedAt \in {"read_world", "export"}

(* The Spatial Filter has finished: gdf and mbc_gdf are final. *)
Filtered ==
  \/ pc \in {"read_world", "plot_map", "histogram", "export", "done"}
  \/ pc = "aborted" /\ failedAt \in {"read_world", "export"}

HasAllColumns == file.exists /\ file.columns = FileColumns

(* The line of the input file a row of a data frame comes from. *)
Source(r) == file.rows[r["index"] + 1]

(* C1: with all required columns present the cleaning stage never raises,
   and a row whose date text does not parse is null-dated after the parse
   step. *)
C1_UnparseableBecomesNull ==
  HasAllColumns =>
    /\ failedAt \notin CleaningStages
    /\ pc = "correct" =>
         \A i \in 1..Len(df.rows) :
           ~Parseable(Source(df.rows[i])["date"]) => df.rows[i]["date"] = NaT

(* C2 as stated: when the download of the world boundaries fails after a
   successful load, clean and filter, the filtered table is still written
   to the output file. *)
C2_FetchFailureStillExports ==
  (pc = "aborted" /\ failedAt = "read_world") => outfile = to_csv(mbc_gdf)

(* C2 amended: a failed download of the world boundaries ends the run: no
   figure is shown, the export never runs and the output file stays as it
   was. *)
C2_FetchFailureEndsRun ==
  failedAt = "read_world" =>
    /\ pc = "aborted"
    /\ outfile \in {OutAbsent, OutStale}
    /\ shown = << >>
    /\ year_counts = << >>

C2_Witness ==
  /\ pc = "aborted"
  /\ failedAt = "read_world"
  /\ Len(mbc_gdf.rows) > 0
  /\ outfile = OutStale

(* C3: a run that hits a fatal error stops there: it is aborted, nothing a
   later stage produces exists, and the output file is neither created nor
   modified; the output file changes only in the export step that
   completes the run. *)
C3_FatalErrorAborts ==
  /\ [](failedAt # "none" =>
          /\ pc = "aborted"
          /\ outfile \in {OutAbsent, OutStale}
          /\ failedAt # "export" =>
               (world = FALSE /\ shown = << >> /\ year_counts = << >>)
          /\ failedAt \notin {"read_world", "export"} =>
               (gdf = EmptyFrame /\ mbc_gdf = EmptyFrame)
          /\ failedAt = "read_csv" => df = EmptyFrame)
  /\ [][outfile' # outfile => (pc = "export" /\ pc' = "done")]_vars
  /\ [][pc # "aborted"]_vars

C3_Witness ==
  /\ pc = "aborted"
  /\ failedAt = "export"
  /\ Len(mbc_gdf.rows) > 0
  /\ outfile = OutAbsent

(* C4: after the correction step a parsed date of year >= 2026 has moved
   back 100 years with month and day kept, any other date and the null date
   are as parsed, and the step does not raise for any date the parse
   produces; "01/15/47" gives year 1947 and "06/01/99" gives year 1999. *)
C4_CenturyCorrection ==
  /\ failedAt # "correct"
  /\ pc = "derive" =>
       \A i \in 1..Len(df.rows) :
         LET parsed == to_datetime(Source(df.rows[i])["date"])
             fixed == df.rows[i]["date"]
         IN /\ parsed = NaT => fixed = NaT
            /\ (parsed # NaT /\ parsed[1] >= 2026) =>
                 fixed = <<parsed[1] - 100, parsed[2], parsed[3]>>
            /\ (parsed # NaT /\ parsed[1] < 2026) => fixed = parsed
            /\ fixed # NaT => ValidDate(fixed[1], fixed[2], fixed[3])
  /\ pc = "to_numeric" =>
       \A i \in 1..Len(df.rows) :
         /\ Source(df.rows[i])["date"] = <<1, 15, 47>>
              => df.rows[i]["year"] = 1947
         /\ Source(df.rows[i])["date"] = <<6, 1, 99>>
              => df.rows[i]["year"] = 1999

C4_Witness ==
  /\ pc = "derive"
  /\ Len(df.rows) = 1
  /\ Source(df.rows[1])["date"] = <<2, 29, 48>>
  /\ df.rows[1]["date"] = <<1948, 2, 29>>

(* Containment tests stated on the crossing number and the boundary. *)
InsideOrOn(p) ==
  OnBoundary(p, mbc_coords) \/ Crossings(p, mbc_coords) % 2 = 1

StrictlyInside(p) ==
  ~OnBoundary(p, mbc_coords) /\ Crossings(p, mbc_coords) % 2 = 1

StrictlyOutside(p) ==
  ~OnBoundary(p, mbc_coords) /\ Crossings(p, mbc_coords) % 2 = 0

LonLat(r) == <<r["longitude"], r["latitude"]>>

Retained(t, r) == \E j \in 1..Len(t.rows) : t.rows[j]["index"] = r["index"]

(* C5 as stated: every filtered row is within or on the polygon and every
   geolocated row missing from the filtered table is strictly outside it. *)
C5_PartitionBoundaryKept ==
  Filtered =>
    /\ \A j \in 1..Len(mbc_gdf.rows) : InsideOrOn(LonLat(mbc_gdf.rows[j]))
    /\ \A i \in 1..Len(gdf.rows) :
         ~Retained(mbc_gdf, gdf.rows[i])
           => StrictlyOutside(LonLat(gdf.rows[i]))

(* C5 amended: every filtered row is strictly inside the polygon and every
   geolocated row missing from the filtered table is outside it or on its
   boundary (a point on an edge or on a vertex is dropped). *)
C5_PartitionBoundaryDropped ==
  Filtered =>
    /\ \A j \in 1..Len(mbc_gdf.rows) :
         /\ StrictlyInside(LonLat(mbc_gdf.rows[j]))
         /\ Retained(gdf, mbc_gdf.rows[j])
    /\ \A i \in 1..Len(gdf.rows) :
         ~Retained(mbc_gdf, gdf.rows[i])
           => ~StrictlyInside(LonLat(gdf.rows[i]))

C5_Witness ==
  /\ Filtered
  /\ Len(gdf.rows) = 2
  /\ Len(mbc_gdf.rows) = 1
  /\ LonLat(gdf.rows[1]) = <<-86280, 11172>>
  /\ LonLat(gdf.rows[2]) = <<-85000, 10000>>
  /\ mbc_gdf.rows[1]["index"] = gdf.rows[2]["index"]

HasCoords(r) == r["decimalLatitude"] # NaN /\ r["decimalLongitude"] # NaN

Located(r) ==
  r["latitude"] # NaN /\ r["longitude"] # NaN /\ r["year"] # NaN

(* C6: every row of the cleaned, geolocated, filtered and exported tables
   has a latitude, a longitude and a year, and comes from an input row that
   has both coordinates; from the coordinate drop on, no row of the working
   table lacks a coordinate. *)
C6_RetainedRowsLocated ==
  /\ Cleaned =>
       \A i \in 1..Len(df.rows) :
         Located(df.rows[i]) /\ HasCoords(Source(df.rows[i]))
  /\ \A i \in 1..Len(gdf.rows) :
       Located(gdf.rows[i]) /\ HasCoords(Source(gdf.rows[i]))
  /\ \A i \in 1..Len(mbc_gdf.rows) :
       Located(mbc_gdf.rows[i]) /\ HasCoords(Source(mbc_gdf.rows[i]))
  /\ outfile.state = "written" =>
       /\ Len(outfile.rows) = Len(mbc_gdf.rows)
       /\ \A i \in 1..Len(outfile.rows) :
            /\ Located(outfile.rows[i])
            /\ \A c \in mbc_gdf.columns :
                 outfile.rows[i][c] = mbc_gdf.rows[i][c]
  /\ (HasAllColumns /\ pc \notin {"read_csv", "dropna_coords"}) =>
       \A i \in 1..Len(df.rows) : HasCoords(Source(df.rows[i]))

C6_Witness ==
  /\ pc = "done"
  /\ Len(file.rows) = 2
  /\ file.rows[1]["decimalLatitude"] = NaN
  /\ file.rows[1]["date"] = <<1, 15, 47>>
  /\ Len(outfile.rows) = 1
  /\ outfile.rows[1]["gbifID"] = file.rows[2]["gbifID"]

(* The Cleaner's row removals and correction applied to a cleaned table;
   the dropped date column is read back from year, month and day. *)
CleanAgain(t) ==
  LET t1 == dropna(t, {"latitude", "longitude"})
      date(r) == correct_future_dates(
                   IF r["year"] = NaN THEN NaT
                   ELSE <<r["year"], r["month"], r["day"]>>)
      t2 == Assign(t1, "date", [i \in Rows(t1) |-> date(t1.rows[i])])
      y == [i \in Rows(t2) |-> to_numeric(DtField(t2.rows[i]["date"], 1))]
      m == [i \in Rows(t2) |-> DtField(t2.rows[i]["date"], 2)]
      d == [i \in Rows(t2) |-> DtField(t2.rows[i]["date"], 3)]
      t3 == Assign(Assign(Assign(t2, "year", y), "month", m), "day", d)
      t4 == dropna(dropna(t3, {"year"}), {"date"})
  IN Project(t4, t.columns)

(* C7: cleaning the cleaned table again removes no row and changes no
   year, month or day, and no cleaned row has a missing coordinate, a null
   year or a year >= 2026. *)
C7_CleaningIdempotent ==
  Cleaned =>
    /\ CleanAgain(df) = df
    /\ \A i \in 1..Len(df.rows) :
         Located(df.rows[i]) /\ df.rows[i]["year"] < 2026

C7_Witness ==
  /\ Cleaned
  /\ Len(df.rows) = 2
  /\ Source(df.rows[1])["date"] = <<1, 15, 47>>
  /\ df.rows[1]["year"] = 1947
  /\ Source(df.rows[2])["date"] = <<1, 1, 26>>
  /\ df.rows[2]["year"] = 1926

Geometrized == pc = "filter" \/ Filtered

Increasing(rows) ==
  \A i, j \in 1..Len(rows) : i < j => rows[i]["index"] < rows[j]["index"]

(* C8: the cleaned table is an order-preserving subsequence of the input
   rows with their field values; the geolocated table has one point
   (x = longitude, y = latitude) per cleaned row in the same order; the
   filtered table is an order-preserving subsequence of the geolocated
   table with rows unchanged; the filter step leaves the geolocated table
   as it is. *)
C8_OrderAndContentPreserved ==
  /\ [](Cleaned =>
          /\ Increasing(df.rows)
          /\ \A i \in 1..Len(df.rows) :
               LET r == df.rows[i]
                   src == Source(r)
               IN /\ r["latitude"] = src["decimalLatitude"]
                  /\ r["longitude"] = src["decimalLongitude"]
                  /\ \A c \in {"type", "basisOfRecord", "gbifID",
                                "occurrenceID"} : r[c] = src[c])
  /\ [](Geometrized =>
          /\ Len(gdf.rows) = Len(df.rows)
          /\ \A i \in 1..Len(gdf.rows) :
               /\ gdf.rows[i]["geometry"]
                    = <<df.rows[i]["longitude"], df.rows[i]["latitude"]>>
               /\ \A c \in df.columns \cup {"index"} :
                    gdf.rows[i][c] = df.rows[i][c])
  /\ [](Filtered =>
          /\ Increasing(mbc_gdf.rows)
          /\ \A j \in 1..Len(mbc_gdf.rows) :
               \E i \in 1..Len(gdf.rows) : mbc_gdf.rows[j] = gdf.rows[i])
  /\ [][pc = "filter" => gdf' = gdf]_vars

C8_Witness ==
  /\ pc = "done"
  /\ Len(file.rows) = 2
  /\ Len(df.rows) = 2
  /\ Len(mbc_gdf.rows) = 1
  /\ mbc_gdf.rows[1]["index"] = 1
  /\ mbc_gdf.rows[1]["geometry"] = <<-85000, 10000>>

(* C9: once the year is derived a row has a null year exactly when its
   date is null; after the year-null drop no row has a null date, and the
   date-null drop removes no row. *)
C9_DateDropRedundant ==
  /\ [](pc \in {"to_numeric", "dropna_year"} =>
          \A i \in 1..Len(df.rows) :
            (df.rows[i]["year"] = NaN) <=> (df.rows[i]["date"] = NaT))
  /\ [](pc \in {"project", "dropna_date"} =>
          \A i \in 1..Len(df.rows) : df.rows[i]["date"] # NaT)
  /\ [][pc = "dropna_date" => df'.rows = df.rows]_vars

C9_Witness ==
  /\ pc = "time_start"
  /\ Len(file.rows) = 2
  /\ HasCoords(file.rows[1])
  /\ file.rows[1]["date"] = << >>
  /\ Len(df.rows) = 1
  /\ df.rows[1]["index"] = 1

DigitValue(ch) == CHOOSE n \in 0..9 : Digit(n) = ch

Number4(s) ==
  1000 * DigitValue(s[1]) + 100 * DigitValue(s[2]) + 10 * DigitValue(s[3])
    + DigitValue(s[4])

Number2(s) == 10 * DigitValue(s[1]) + DigitValue(s[2])

(* C10: every cleaned row has its year in 1926..2025, the year is 2000+yy
   for yy in 00..25 and 1900+yy for yy in 26..99 (so yy is the year modulo
   100 and distinct yy give distinct years), and year, month and day are
   the ones written in system:time_start, whose time part is 00:00:00. *)
C10_YearWindowAndTimeStart ==
  Cleaned =>
    \A i \in 1..Len(df.rows) :
      LET r == df.rows[i]
          cell == Source(r)["date"]
          ts == r["system:time_start"]
      IN /\ r["year"] \in 1926..2025
         /\ r["year"] = (IF cell[3] <= 25 THEN 2000 ELSE 1900) + cell[3]
         /\ r["year"] % 100 = cell[3]
         /\ r["month"] = cell[1]
         /\ r["day"] = cell[2]
         /\ Len(ts) = 19
         /\ Number4(SubSeq(ts, 1, 4)) = r["year"]
         /\ Number2(SubSeq(ts, 6, 7)) = r["month"]
         /\ Number2(SubSeq(ts, 9, 10)) = r["day"]
         /\ ts[5] = "-" /\ ts[8] = "-" /\ ts[11] = "T"
         /\ SubSeq(ts, 12, 19) = <<"0", "0", ":", "0", "0", ":", "0", "0">>

C10_Witness ==
  /\ pc = "done"
  /\ Len(df.rows) = 1
  /\ Source(df.rows[1])["date"] = <<12, 31, 68>>
  /\ df.rows[1]["year"] = 1968
  /\ df.rows[1]["system:time_start"]
       = <<"1", "9", "6", "8", "-", "1", "2", "-", "3", "1", "T",
           "0", "0", ":", "0", "0", ":", "0", "0">>

====
